---------------------------- MODULE Spec2Model ----------------------------
(***************************************************************************)
(* State-machine model of src/gate.py: the Node / Gate data model of a     *)
(* combinational circuit, the five-valued propagation algebra, the         *)
(* SCOAP-style controllability computation and the X-path predicate.       *)
(*                                                                         *)
(* Python values are represented as follows.  The logic values 0, 1, 'X',  *)
(* 'D', '~D' are the strings "0", "1", "X", "D", "~D".  None is -1; a      *)
(* stuck-at value is 0 or 1.  Nodes and gates live in two arenas (the      *)
(* sequences nodes and gates) and refer to each other by index.  A raised  *)
(* exception is reported by its class name in the field raised ("" when    *)
(* the call returned normally).                                            *)
(***************************************************************************)
EXTENDS Integers, Sequences, FiniteSets

VARIABLES
    nodes,        \* arena of Node objects
    gates,        \* arena of Gate objects
    ret,          \* the last call made on the circuit and its outcome
    propagated,   \* gates propagated by the simulation pass just completed
    probe         \* input scores handed to the controllability formulas

vars == <<nodes, gates, ret, propagated, probe>>

---------------------------------------------------------------------------
(* Bounds of the model *)

MaxFanIn == 3          \* largest number of inputs of a gate (gate-level runs)
MaxFaults == 1         \* single stuck-at fault model
MaxNodes == 4          \* Signals of a simulated circuit of NAND gates
MaxMixedNodes == 3     \* Signals of a simulated circuit with gates of other types
MaxStructNodes == 4    \* Signals of a circuit built by the structural runs
MaxArityNodes == 3     \* Signals of a circuit built by the arity runs
MaxBuildFanIn == 2     \* largest number of inputs of a gate in built circuits

---------------------------------------------------------------------------
(* Values *)

None == -1

Vals == {"0", "1", "X", "D", "~D"}

GateTypes == {"not", "and", "nand", "or", "nor", "xor", "xnor"}

RECURSIVE SeqSum(_)
SeqSum(s) == IF s = <<>> THEN 0 ELSE Head(s) + SeqSum(Tail(s))

SeqMin(s) == CHOOSE m \in {s[i] : i \in DOMAIN s} : \A i \in DOMAIN s : m <= s[i]

Contains(s, v) == \E i \in DOMAIN s : s[i] = v

---------------------------------------------------------------------------
(* Node *)

Node__init__(gate_output, stuck_at) ==
    [stuck_at |-> stuck_at, state |-> "X", gates |-> <<>>,
     gate_output |-> gate_output, cc0 |-> None, cc1 |-> None]

is_pi(node) == node.gate_output = None

is_po(node) == Len(node.gates) = 0

is_faulty_stuck0_only(node) == node.stuck_at = 0

is_faulty(node) == node.stuck_at # None

is_fanout(node) == Len(node.gates) > 1

set_stuck_at(node, stuck_at) == [node EXCEPT !.stuck_at = stuck_at]

reset(node) == [node EXCEPT !.state = "X"]

remove_fault(node) == [node EXCEPT !.stuck_at = None, !.state = "X"]

activate_fault(node) ==
    IF is_faulty(node)
    THEN [node EXCEPT !.state = <<"D", "~D">>[node.stuck_at + 1]]
    ELSE node

make_faulty(node, stuck_at, set) ==
    LET n1 == [node EXCEPT !.stuck_at = stuck_at]
    IN  IF set THEN activate_fault(n1) ELSE n1

\* set_state without the guard on D / ~D
set_state_unguarded(node, val) ==
    IF node.stuck_at = 0 /\ val = "1"
    THEN [raised |-> "", node |-> [node EXCEPT !.state = "D"]]
    ELSE IF node.stuck_at = 1 /\ val = "0"
    THEN [raised |-> "", node |-> [node EXCEPT !.state = "~D"]]
    ELSE [raised |-> "", node |-> [node EXCEPT !.state = val]]

\* set_state that forgets the stuck-at-1 masking
set_state_no_mask1(node, val) ==
    IF is_faulty(node) /\ val \in {"D", "~D"}
    THEN [raised |-> "ValueError", node |-> node]
    ELSE IF node.stuck_at = 0 /\ val = "1"
    THEN [raised |-> "", node |-> [node EXCEPT !.state = "D"]]
    ELSE [raised |-> "", node |-> [node EXCEPT !.state = val]]

\* the outcome of node.set_state(val): the exception raised, if any, and the node
set_state(node, val) ==
    IF is_faulty(node) /\ val \in {"D", "~D"}
    THEN [raised |-> "ValueError", node |-> node]
    ELSE IF node.stuck_at = 0 /\ val = "1"
    THEN [raised |-> "", node |-> [node EXCEPT !.state = "D"]]
    ELSE IF node.stuck_at = 1 /\ val = "0"
    THEN [raised |-> "", node |-> [node EXCEPT !.state = "~D"]]
    ELSE [raised |-> "", node |-> [node EXCEPT !.state = val]]

\* the outcome of node.is_fault_activated()
is_fault_activated(node) ==
    IF ~is_faulty(node)
    THEN [raised |-> "ValueError", flag |-> FALSE]
    ELSE [raised |-> "", flag |-> node.state = <<"D", "~D">>[node.stuck_at + 1]]

---------------------------------------------------------------------------
(* Gate: the propagation algebra.  A propagate function returns a value of *)
(* Vals, or the class name of the exception it raises.                     *)

Errors == {"AssertionError", "IndexError", "ValueError", "TypeError"}

invert(val) ==
    CASE val = "X" -> "X"
      [] val = "D" -> "~D"
      [] val = "~D" -> "D"
      [] val = "0" -> "1"
      [] val = "1" -> "0"

not_propagate(inputs) ==
    IF Len(inputs) # 1 THEN "AssertionError" ELSE invert(inputs[1])

\* and_propagate that lets D and ~D together fall through to the X / D tests
and_propagate_no_cancel(inputs) ==
    IF ~(Len(inputs) > 1) THEN "AssertionError"
    ELSE IF Contains(inputs, "0") THEN "0"
    ELSE IF \A i \in DOMAIN inputs : inputs[i] = "1" THEN "1"
    ELSE IF Contains(inputs, "X") THEN "X"
    ELSE IF Contains(inputs, "D") THEN "D"
    ELSE "~D"

and_propagate(inputs) ==
    IF ~(Len(inputs) > 1) THEN "AssertionError"
    ELSE IF Contains(inputs, "0") THEN "0"
    ELSE IF \A i \in DOMAIN inputs : inputs[i] = "1" THEN "1"
    ELSE LET d_found == Contains(inputs, "D")
             d_prime_found == Contains(inputs, "~D")
         IN  IF d_found /\ d_prime_found THEN "0"
             ELSE IF Contains(inputs, "X") THEN "X"
             ELSE IF d_found /\ ~d_prime_found THEN "D"
             ELSE IF ~d_found /\ d_prime_found THEN "~D"
             ELSE "0"

\* or_propagate that tests for X before it tests for D together with ~D
or_propagate_x_first(inputs) ==
    IF ~(Len(inputs) > 1) THEN "AssertionError"
    ELSE IF Contains(inputs, "1") THEN "1"
    ELSE IF \A i \in DOMAIN inputs : inputs[i] = "0" THEN "0"
    ELSE IF Contains(inputs, "D") /\ ~Contains(inputs, "~D") /\ ~Contains(inputs, "X")
         THEN "D"
    ELSE IF Contains(inputs, "~D") /\ ~Contains(inputs, "D") /\ ~Contains(inputs, "X")
         THEN "~D"
    ELSE "X"

or_propagate(inputs) ==
    IF ~(Len(inputs) > 1) THEN "AssertionError"
    ELSE IF Contains(inputs, "1") THEN "1"
    ELSE IF \A i \in DOMAIN inputs : inputs[i] = "0" THEN "0"
    ELSE LET d_found == Contains(inputs, "D")
             d_prime_found == Contains(inputs, "~D")
         IN  IF d_found /\ d_prime_found THEN "1"
             ELSE IF Contains(inputs, "X") THEN "X"
             ELSE IF d_found THEN "D"
             ELSE "~D"

nand_propagate(inputs) ==
    LET r == and_propagate(inputs) IN IF r \in Errors THEN r ELSE invert(r)

nor_propagate(inputs) ==
    LET r == or_propagate(inputs) IN IF r \in Errors THEN r ELSE invert(r)

\* xor_2inp whose second product term forgets to invert a
xor_2inp_second_term(a, b) ==
    or_propagate(<<and_propagate(<<a, invert(b)>>), and_propagate(<<b, a>>)>>)

xor_2inp(a, b) ==
    LET first_and == and_propagate(<<a, invert(b)>>)
        second_and == and_propagate(<<b, invert(a)>>)
    IN  or_propagate(<<first_and, second_and>>)

\* the while loop of xor_propagate: val is the running value, inputs what is left
RECURSIVE xor_loop(_, _)
xor_loop(val, inputs) ==
    IF Len(inputs) > 0
    THEN xor_loop(xor_2inp(val, inputs[Len(inputs)]), SubSeq(inputs, 1, Len(inputs) - 1))
    ELSE val

xor_propagate(inputs) ==
    IF Len(inputs) = 0 THEN "IndexError"
    ELSE xor_loop(inputs[Len(inputs)], SubSeq(inputs, 1, Len(inputs) - 1))

xnor_propagate(inputs) ==
    LET r == xor_propagate(inputs) IN IF r \in Errors THEN r ELSE invert(r)

\* Gate._propagate: dispatch on the gate type
dispatch_propagate(type, inputs) ==
    CASE type = "not" -> not_propagate(inputs)
      [] type = "and" -> and_propagate(inputs)
      [] type = "nand" -> nand_propagate(inputs)
      [] type = "or" -> or_propagate(inputs)
      [] type = "nor" -> nor_propagate(inputs)
      [] type = "xor" -> xor_propagate(inputs)
      [] type = "xnor" -> xnor_propagate(inputs)

---------------------------------------------------------------------------
(* Gate: construction *)

\* the for loop of set_depth without the comparison: the depth of the last
\* producing gate wins, whether or not it is the largest
RECURSIVE set_depth_loop_last(_, _, _, _)
set_depth_loop_last(ns, gs, depth, inputs) ==
    IF inputs = <<>> THEN depth
    ELSE LET input == ns[Head(inputs)]
         IN  IF is_pi(input) THEN set_depth_loop_last(ns, gs, depth, Tail(inputs))
             ELSE set_depth_loop_last(ns, gs, gs[input.gate_output].depth, Tail(inputs))

\* the for loop of set_depth: depth is the running maximum, inputs what is left
RECURSIVE set_depth_loop(_, _, _, _)
set_depth_loop(ns, gs, depth, inputs) ==
    IF inputs = <<>> THEN depth
    ELSE LET input == ns[Head(inputs)]
         IN  IF is_pi(input) THEN set_depth_loop(ns, gs, depth, Tail(inputs))
             ELSE IF gs[input.gate_output].depth > depth
             THEN set_depth_loop(ns, gs, gs[input.gate_output].depth, Tail(inputs))
             ELSE set_depth_loop(ns, gs, depth, Tail(inputs))

set_depth(ns, gs, inputs) == set_depth_loop(ns, gs, 0, inputs) + 1

\* "for node in self.inputs: node.gates.append(self)"
RECURSIVE register_consumer(_, _, _)
register_consumer(ns, inputs, g) ==
    IF inputs = <<>> THEN ns
    ELSE register_consumer([ns EXCEPT ![Head(inputs)].gates = Append(@, g)],
                           Tail(inputs), g)

\* Gate(type, *inputs): the circuit [nodes, gates] after the constructor ran
Gate__init__(ns, gs, type, inputs) ==
    LET g == Len(gs) + 1
        registered == register_consumer(ns, inputs, g)
        withOutput == Append(registered, Node__init__(g, None))
        gate == [type |-> type, inputs |-> inputs, output |-> Len(ns) + 1,
                 depth |-> set_depth(ns, gs, inputs)]
    IN  [nodes |-> withOutput, gates |-> Append(gs, gate)]

\* "for node in self.inputs: node.reset()"
RECURSIVE reset_inputs(_, _)
reset_inputs(ns, inputs) ==
    IF inputs = <<>> THEN ns
    ELSE reset_inputs([ns EXCEPT ![Head(inputs)] = reset(@)], Tail(inputs))

\* gate.reset(): the nodes after the inputs and the output were reset
gate_reset(ns, gate) ==
    [reset_inputs(ns, gate.inputs) EXCEPT ![gate.output] = reset(@)]

---------------------------------------------------------------------------
(* Gate.propagate *)

input_states(ns, gate) == [i \in DOMAIN gate.inputs |-> ns[gate.inputs[i]].state]

\* the outcome of gates[g].propagate(): exception, nodes afterwards, value returned
propagate(ns, gs, g) ==
    LET gate == gs[g]
        output == dispatch_propagate(gate.type, input_states(ns, gate))
    IN  IF output \in Errors
        THEN [raised |-> output, nodes |-> ns, val |-> ""]
        ELSE LET r == set_state(ns[gate.output], output)
             IN  IF r.raised # ""
                 THEN [raised |-> r.raised, nodes |-> ns, val |-> ""]
                 ELSE [raised |-> "", nodes |-> [ns EXCEPT ![gate.output] = r.node],
                       val |-> r.node.state]

---------------------------------------------------------------------------
(* Node.has_x_path *)

\* outputs of the gates in gate_ids, in order
outputs_of(gs, gate_ids) == [i \in DOMAIN gate_ids |-> gs[gate_ids[i]].output]

\* "[gate.output for gate in node.gates if gate.output.state == 'X']"
x_outputs(ns, gs, node) ==
    SelectSeq(outputs_of(gs, node.gates), LAMBDA m : ns[m].state = "X")

\* the while loop of has_x_path; to_explore is the stack, its top at the end
RECURSIVE x_path_loop(_, _, _)
x_path_loop(ns, gs, to_explore) ==
    IF Len(to_explore) > 0
    THEN LET node == ns[to_explore[Len(to_explore)]]
             rest == SubSeq(to_explore, 1, Len(to_explore) - 1)
         IN  IF is_po(node) THEN TRUE
             ELSE x_path_loop(ns, gs, rest \o x_outputs(ns, gs, node))
    ELSE FALSE

\* has_x_path that pushes every consumer output, whatever its value
RECURSIVE x_path_loop_unfiltered(_, _, _)
x_path_loop_unfiltered(ns, gs, to_explore) ==
    IF Len(to_explore) > 0
    THEN LET node == ns[to_explore[Len(to_explore)]]
             rest == SubSeq(to_explore, 1, Len(to_explore) - 1)
         IN  IF is_po(node) THEN TRUE
             ELSE x_path_loop_unfiltered(ns, gs, rest \o outputs_of(gs, node.gates))
    ELSE FALSE

has_x_path_unfiltered(ns, gs, n) ==
    IF is_po(ns[n]) THEN ns[n].state = "X"
    ELSE x_path_loop_unfiltered(ns, gs, x_outputs(ns, gs, ns[n]))

has_x_path(ns, gs, n) ==
    IF is_po(ns[n]) THEN ns[n].state = "X"
    ELSE x_path_loop(ns, gs, x_outputs(ns, gs, ns[n]))

---------------------------------------------------------------------------
(* Node.set_controllability *)

Sentinel == 1000000

SetMin(S) == CHOOSE m \in S : \A x \in S : m <= x

\* construct_odds(n): the index sets of odd size
construct_odds(n) == {S \in SUBSET (1..n) : Cardinality(S) % 2 = 1}

\* the cost of one combination: cc1 of the inputs in it, cc0 of the others
cc_term(ins, combination) ==
    SeqSum([i \in DOMAIN ins |->
               IF i \in combination THEN ins[i].cc1 ELSE ins[i].cc0])

\* xor_cc1_xnor_cc0: the running minimum starts at 1000000
xor_cc1_xnor_cc0(ins) ==
    SetMin({Sentinel} \cup {cc_term(ins, c) : c \in construct_odds(Len(ins))}) + 1

\* the formulas of set_controllability for a gate of the given type whose
\* inputs carry the scores ins; raised names the exception, if any
GateCC(type, ins) ==
    LET cc0s == [i \in DOMAIN ins |-> ins[i].cc0]
        cc1s == [i \in DOMAIN ins |-> ins[i].cc1]
        ok(c0, c1) == [raised |-> "", cc0 |-> c0, cc1 |-> c1]
        fail(e) == [raised |-> e, cc0 |-> None, cc1 |-> None]
        minsum == SetMin({SeqSum(cc0s), SeqSum(cc1s)}) + 1
    IN  IF type = "not"
        THEN IF Len(ins) = 0 THEN fail("IndexError")
             ELSE IF ins[1].cc1 = None \/ ins[1].cc0 = None THEN fail("TypeError")
             ELSE ok(ins[1].cc1 + 1, ins[1].cc0 + 1)
        ELSE IF \E i \in DOMAIN ins : ins[i].cc0 = None \/ ins[i].cc1 = None
        THEN fail("TypeError")
        ELSE IF type \in {"and", "nand", "or", "nor"} /\ Len(ins) = 0
        THEN fail("ValueError")
        ELSE CASE type = "and" -> ok(SeqMin(cc0s) + 1, SeqSum(cc1s) + 1)
               [] type = "nand" -> ok(SeqSum(cc1s) + 1, SeqMin(cc0s) + 1)
               [] type = "or" -> ok(SeqSum(cc0s) + 1, SeqMin(cc1s) + 1)
               [] type = "nor" -> ok(SeqMin(cc1s) + 1, SeqSum(cc0s) + 1)
               [] type = "xor" -> ok(minsum, xor_cc1_xnor_cc0(ins))
               [] type = "xnor" -> ok(xor_cc1_xnor_cc0(ins), minsum)

input_scores(ns, gate) ==
    [i \in DOMAIN gate.inputs |->
        [cc0 |-> ns[gate.inputs[i]].cc0, cc1 |-> ns[gate.inputs[i]].cc1]]

\* the outcome of nodes[n].set_controllability()
set_controllability(ns, gs, n) ==
    IF is_pi(ns[n])
    THEN [raised |-> "", node |-> [ns[n] EXCEPT !.cc0 = 1, !.cc1 = 1], cc |-> <<1, 1>>]
    ELSE LET gate == gs[ns[n].gate_output]
             r == GateCC(gate.type, input_scores(ns, gate))
         IN  IF r.raised # ""
             THEN [raised |-> r.raised, node |-> ns[n], cc |-> <<None, None>>]
             ELSE [raised |-> "", node |-> [ns[n] EXCEPT !.cc0 = r.cc0, !.cc1 = r.cc1],
                   cc |-> <<r.cc0, r.cc1>>]

---------------------------------------------------------------------------
(* Calls and their outcomes.  ret names the last call; it carries the      *)
(* target and the argument of the calls that return a value or may raise,  *)
(* and target 0 for the calls that return nothing.                         *)

Outcome(op, target, arg, raised, val) ==
    [op |-> op, target |-> target, arg |-> arg, raised |-> raised, val |-> val,
     flag |-> FALSE, cc |-> <<None, None>>]

NoProbe == [type |-> "", ins |-> <<>>]

NodeIds == DOMAIN nodes
GateIds == DOMAIN gates

FaultyNodes == {n \in NodeIds : is_faulty(nodes[n])}

SetState(n, val) ==
    LET r == set_state(nodes[n], val)
    IN  /\ nodes' = [nodes EXCEPT ![n] = r.node]
        /\ ret' = Outcome("set_state", n, val, r.raised, "")
        /\ UNCHANGED <<gates, propagated, probe>>

MakeFaulty(n, stuck_at, set) ==
    /\ nodes' = [nodes EXCEPT ![n] = make_faulty(nodes[n], stuck_at, set)]
    /\ ret' = Outcome("make_faulty", 0, "", "", "")
    /\ UNCHANGED <<gates, propagated, probe>>

RemoveFault(n) ==
    /\ nodes' = [nodes EXCEPT ![n] = remove_fault(nodes[n])]
    /\ ret' = Outcome("remove_fault", 0, "", "", "")
    /\ UNCHANGED <<gates, propagated, probe>>

SetStuckAt(n, stuck_at) ==
    /\ nodes' = [nodes EXCEPT ![n] = set_stuck_at(nodes[n], stuck_at)]
    /\ ret' = Outcome("set_stuck_at", 0, "", "", "")
    /\ UNCHANGED <<gates, propagated, probe>>

ActivateFault(n) ==
    /\ nodes' = [nodes EXCEPT ![n] = activate_fault(nodes[n])]
    /\ ret' = Outcome("activate_fault", 0, "", "", "")
    /\ UNCHANGED <<gates, propagated, probe>>

Reset(n) ==
    /\ nodes' = [nodes EXCEPT ![n] = reset(nodes[n])]
    /\ ret' = Outcome("reset", 0, "", "", "")
    /\ UNCHANGED <<gates, propagated, probe>>

GateReset(g) ==
    /\ nodes' = gate_reset(nodes, gates[g])
    /\ ret' = Outcome("gate_reset", 0, "", "", "")
    /\ UNCHANGED <<gates, propagated, probe>>

IsFaultActivated(n) ==
    LET r == is_fault_activated(nodes[n])
    IN  /\ ret' = [Outcome("is_fault_activated", n, "", r.raised, "") EXCEPT
                      !.flag = r.flag]
        /\ UNCHANGED <<nodes, gates, propagated, probe>>

Propagate(g) ==
    LET r == propagate(nodes, gates, g)
    IN  /\ nodes' = r.nodes
        /\ ret' = Outcome("propagate", g, "", r.raised, r.val)
        /\ UNCHANGED <<gates, propagated, probe>>

HasXPath(n) ==
    /\ ret' = [Outcome("has_x_path", n, "", "", "") EXCEPT
                  !.flag = has_x_path(nodes, gates, n)]
    /\ UNCHANGED <<nodes, gates, propagated, probe>>

SetControllability(n) ==
    LET r == set_controllability(nodes, gates, n)
    IN  /\ nodes' = [nodes EXCEPT ![n] = r.node]
        /\ ret' = [Outcome("set_controllability", n, "", r.raised, "") EXCEPT !.cc = r.cc]
        /\ UNCHANGED <<gates, propagated, probe>>

\* Node(): a new primary input
NewNode(max) ==
    /\ Len(nodes) < max
    /\ nodes' = Append(nodes, Node__init__(None, None))
    /\ ret' = Outcome("Node", Len(nodes) + 1, "", "", "")
    /\ UNCHANGED <<gates, propagated, probe>>

\* Gate(type, *inputs) over existing nodes
NewGate(max, type, inputs) ==
    /\ Len(nodes) < max
    /\ LET c == Gate__init__(nodes, gates, type, inputs)
       IN  nodes' = c.nodes /\ gates' = c.gates
    /\ ret' = Outcome("Gate", Len(gates) + 1, "", "", "")
    /\ UNCHANGED <<propagated, probe>>

InputSeqs(lo, hi) == UNION {[1..k -> NodeIds] : k \in lo..hi}

EmptyCircuit ==
    /\ nodes = <<>>
    /\ gates = <<>>
    /\ ret = Outcome("init", 0, "", "", "")
    /\ propagated = {}
    /\ probe = NoProbe

---------------------------------------------------------------------------
(* Gate-level runs: one gate of every type, of every arity its propagate   *)
(* function accepts, over primary inputs; every method of Node and Gate    *)
(* that reads or writes a value or a fault can be called at any time.      *)

\* the propagate function of the type runs to completion on k inputs: the
\* asserts of not / and / or pass, xor and xnor find an element to pop
accepts_arity(type, k) == dispatch_propagate(type, [i \in 1..k |-> "X"]) \notin Errors

RECURSIVE fresh_inputs(_)
fresh_inputs(k) ==
    IF k = 0 THEN <<>> ELSE Append(fresh_inputs(k - 1), Node__init__(None, None))

Init ==
    /\ \E type \in GateTypes, k \in 1..MaxFanIn :
          /\ accepts_arity(type, k)
          /\ LET c == Gate__init__(fresh_inputs(k), <<>>, type, [i \in 1..k |-> i])
             IN  nodes = c.nodes /\ gates = c.gates
    /\ ret = Outcome("init", 0, "", "", "")
    /\ propagated = {}
    /\ probe = NoProbe

AttachFault(n, stuck_at, set) ==
    /\ Cardinality(FaultyNodes \ {n}) < MaxFaults
    /\ MakeFaulty(n, stuck_at, set)

\* set_stuck_at(None) clears a fault and keeps the value
MoveFault(n, stuck_at) ==
    /\ stuck_at # None => Cardinality(FaultyNodes \ {n}) < MaxFaults
    /\ SetStuckAt(n, stuck_at)

Next ==
    \/ \E n \in NodeIds, val \in Vals : SetState(n, val)
    \/ \E n \in NodeIds, stuck_at \in {0, 1}, set \in BOOLEAN : AttachFault(n, stuck_at, set)
    \/ \E n \in NodeIds, stuck_at \in {None, 0, 1} : MoveFault(n, stuck_at)
    \/ \E n \in NodeIds : RemoveFault(n)
    \/ \E n \in NodeIds : ActivateFault(n)
    \/ \E n \in NodeIds : Reset(n)
    \/ \E g \in GateIds : GateReset(g)
    \/ \E n \in NodeIds : IsFaultActivated(n)
    \/ \E g \in GateIds : Propagate(g)

Spec == Init /\ [][Next]_vars

---------------------------------------------------------------------------
(* The truth table of the five-valued algebra, written independently of    *)
(* the code: AND by its priority list, OR as the dual of AND, XOR as the   *)
(* left-to-right pairwise reduction.                                       *)

TableInv == [v \in Vals |->
               CASE v = "0" -> "1" [] v = "1" -> "0" [] v = "D" -> "~D"
                 [] v = "~D" -> "D" [] v = "X" -> "X"]

Has(vs, v) == v \in {vs[i] : i \in DOMAIN vs}

TableAnd(vs) ==
    IF Has(vs, "0") THEN "0"
    ELSE IF {vs[i] : i \in DOMAIN vs} = {"1"} THEN "1"
    ELSE IF Has(vs, "D") /\ Has(vs, "~D") THEN "0"
    ELSE IF Has(vs, "X") THEN "X"
    ELSE IF Has(vs, "D") THEN "D"
    ELSE "~D"

TableOr(vs) == TableInv[TableAnd([i \in DOMAIN vs |-> TableInv[vs[i]]])]

TableXor2(a, b) ==
    TableOr(<<TableAnd(<<a, TableInv[b]>>), TableAnd(<<b, TableInv[a]>>)>>)

RECURSIVE TableXor(_)
TableXor(vs) ==
    IF Len(vs) = 1 THEN vs[1]
    ELSE TableXor(<<TableXor2(vs[1], vs[2])>> \o SubSeq(vs, 3, Len(vs)))

Table(type, vs) ==
    CASE type = "not" -> TableInv[vs[1]]
      [] type = "and" -> TableAnd(vs)
      [] type = "nand" -> TableInv[TableAnd(vs)]
      [] type = "or" -> TableOr(vs)
      [] type = "nor" -> TableInv[TableOr(vs)]
      [] type = "xor" -> TableXor(vs)
      [] type = "xnor" -> TableInv[TableXor(vs)]

\* fault masking of a written value, as section 4.1 of the specification states it
Masked(stuck_at, v) ==
    IF stuck_at = 0 /\ v = "1" THEN "D"
    ELSE IF stuck_at = 1 /\ v = "0" THEN "~D"
    ELSE v

LastGate == gates[ret.target]
LastOutput == nodes[gates[ret.target].output]
LastInputs == input_states(nodes, gates[ret.target])

\* C1: after propagate() on a gate whose output Signal carries no fault, the
\* call has returned the truth-table value of the inputs and stored it.
C1_TruthTable ==
    (ret.op = "propagate" /\ LastOutput.stuck_at = None) =>
        /\ ret.raised = ""
        /\ ret.val = Table(LastGate.type, LastInputs)
        /\ LastOutput.state = ret.val

C1_Witness ==
    /\ ret.op = "propagate"
    /\ LastGate.type = "nand"
    /\ LastInputs = <<"D", "1", "~D">>
    /\ LastOutput.stuck_at = None
    /\ ret.val = "1"

\* C2 as stated: assigning D or ~D to a Signal without a fault fails.
C2_Original ==
    (/\ ret.op = "set_state"
     /\ ret.arg \in {"D", "~D"}
     /\ nodes[ret.target].stuck_at = None) => ret.raised = "ValueError"

\* C2 amended: assigning D or ~D fails exactly when the Signal carries a
\* fault; on a Signal without a fault the value is stored as given.
C2_Amended ==
    (ret.op = "set_state" /\ ret.arg \in {"D", "~D"}) =>
        /\ (ret.raised = "ValueError") <=> (nodes[ret.target].stuck_at # None)
        /\ ret.raised \in {"", "ValueError"}
        /\ nodes[ret.target].stuck_at = None => nodes[ret.target].state = ret.arg

C2_Witness ==
    /\ ret.op = "set_state"
    /\ ret.arg = "D"
    /\ nodes[ret.target].stuck_at = None
    /\ ret.raised = ""
    /\ nodes[ret.target].state = "D"

\* C3: a write of 0, 1 or X stores the fault-masked value whatever the
\* fault status, and propagate() stores and returns the fault-masked
\* truth-table value.
C3_FaultMasking ==
    /\ (ret.op = "set_state" /\ ret.arg \in {"0", "1", "X"}) =>
          /\ ret.raised = ""
          /\ nodes[ret.target].state = Masked(nodes[ret.target].stuck_at, ret.arg)
    /\ (ret.op = "propagate" /\ ret.raised = "") =>
          /\ LastOutput.state = Masked(LastOutput.stuck_at, Table(LastGate.type, LastInputs))
          /\ ret.val = LastOutput.state

C3_Witness ==
    /\ ret.op = "propagate"
    /\ ret.raised = ""
    /\ LastOutput.stuck_at = 0
    /\ Table(LastGate.type, LastInputs) = "1"
    /\ ret.val = "D"

\* C7 as stated: propagate() never raises, whatever the inputs and the fault
\* status of the output Signal.
C7_Original ==
    ret.op = "propagate" => (ret.raised = "" /\ LastOutput.state \in Vals)

\* C7 amended: propagate() on a gate of valid arity raises (the ValueError of
\* set_state) exactly when the output Signal carries a fault and the
\* truth-table value is D or ~D; in every other case it completes, and the
\* output Signal always holds one of the five values.  is_fault_activated()
\* raises exactly on a Signal without a fault.
C7_Amended ==
    /\ ret.op = "propagate" =>
          /\ ret.raised \in {"", "ValueError"}
          /\ (ret.raised = "ValueError") <=>
                (/\ LastOutput.stuck_at # None
                 /\ Table(LastGate.type, LastInputs) \in {"D", "~D"})
          /\ LastOutput.state \in Vals
    /\ ret.op = "is_fault_activated" =>
          (ret.raised = "ValueError") <=> (nodes[ret.target].stuck_at = None)

C7_Witness ==
    /\ ret.op = "propagate"
    /\ ret.raised = "ValueError"
    /\ LastOutput.stuck_at = 0
    /\ LastGate.type = "and"
    /\ Table(LastGate.type, LastInputs) = "D"

Perms(n) == {f \in [1..n -> 1..n] : \A i, j \in 1..n : i # j => f[i] # f[j]}

XorGates == {g \in GateIds : gates[g].type \in {"xor", "xnor"}}

\* C8: on the values at the inputs of an XOR / XNOR gate, the two-input
\* reduction is commutative and associative, and the gate's result is the
\* same for every permutation of its inputs.
C8_XorOrderFree ==
    \A g \in XorGates :
        LET vs == input_states(nodes, gates[g])
            S == {vs[i] : i \in DOMAIN vs}
        IN  /\ \A a, b \in S : xor_2inp(a, b) = xor_2inp(b, a)
            /\ \A a, b, c \in S :
                  xor_2inp(xor_2inp(a, b), c) = xor_2inp(a, xor_2inp(b, c))
            /\ \A f \in Perms(Len(vs)) :
                  dispatch_propagate(gates[g].type, [i \in DOMAIN vs |-> vs[f[i]]])
                     = dispatch_propagate(gates[g].type, vs)
            /\ (ret.op = "propagate" /\ ret.target = g /\ LastOutput.stuck_at = None) =>
                  \A f \in Perms(Len(vs)) :
                     ret.val = dispatch_propagate(gates[g].type, [i \in DOMAIN vs |-> vs[f[i]]])

C8_Witness ==
    /\ ret.op = "propagate"
    /\ LastGate.type = "xor"
    /\ LastInputs = <<"D", "1", "~D">>
    /\ LastOutput.stuck_at = None
    /\ ret.val = "0"

---------------------------------------------------------------------------
(* Good-circuit / faulty-circuit reading of the five values *)

GoodBit(v) == IF v \in {"1", "D"} THEN 1 ELSE 0
FaultyBit(v) == IF v \in {"1", "~D"} THEN 1 ELSE 0

FromBits(good, faulty) ==
    CASE good = 0 /\ faulty = 0 -> "0"
      [] good = 1 /\ faulty = 1 -> "1"
      [] good = 1 /\ faulty = 0 -> "D"
      [] good = 0 /\ faulty = 1 -> "~D"

\* the ordinary Boolean gate on a sequence of bits
BoolGate(type, bits) ==
    LET all1 == \A i \in DOMAIN bits : bits[i] = 1
        any1 == \E i \in DOMAIN bits : bits[i] = 1
        odd  == SeqSum(bits) % 2 = 1
        B(p) == IF p THEN 1 ELSE 0
    IN  CASE type = "not" -> 1 - bits[1]
          [] type = "and" -> B(all1)
          [] type = "nand" -> B(~all1)
          [] type = "or" -> B(any1)
          [] type = "nor" -> B(~any1)
          [] type = "xor" -> B(odd)
          [] type = "xnor" -> B(~odd)

Pairwise(type, ws) ==
    FromBits(BoolGate(type, [i \in DOMAIN ws |-> GoodBit(ws[i])]),
             BoolGate(type, [i \in DOMAIN ws |-> FaultyBit(ws[i])]))

Completions(vs) ==
    {ws \in [DOMAIN vs -> Vals \ {"X"}] :
        \A i \in DOMAIN vs : IF vs[i] = "X" THEN ws[i] \in {"0", "1"} ELSE ws[i] = vs[i]}

\* C10: the value every gate computes from its current inputs agrees with the
\* pair (good circuit, faulty circuit): without X among the inputs it is the
\* pairwise Boolean result; with X among them it is X or the pairwise result
\* of every completion of the X inputs.
C10_PairSemantics ==
    \A g \in GateIds :
        LET vs == input_states(nodes, gates[g])
            out == dispatch_propagate(gates[g].type, vs)
        IN  /\ out \in Vals
            /\ ~Has(vs, "X") => (out # "X" /\ out = Pairwise(gates[g].type, vs))
            /\ Has(vs, "X") =>
                  (out = "X" \/ \A ws \in Completions(vs) : Pairwise(gates[g].type, ws) = out)
            /\ (ret.op = "propagate" /\ ret.target = g /\ ret.raised = ""
                  /\ LastOutput.stuck_at = None) => ret.val = out

C10_Witness ==
    /\ ret.op = "propagate"
    /\ LastGate.type = "xnor"
    /\ LastInputs = <<"D", "~D", "D">>
    /\ LastOutput.stuck_at = None
    /\ ret.val = "D"

---------------------------------------------------------------------------
(* Simulation runs: circuits of gates of every type are built in           *)
(* dependency order, up to MaxMixedNodes Signals, and up to MaxNodes       *)
(* Signals as long as all their gates are NAND gates, so that a gate can   *)
(* read the outputs of two gates of different or of equal depth.  At any   *)
(* time the caller may write a primary input, attach, move or remove the   *)
(* single fault, reset a Signal or a gate, propagate a single gate, or     *)
(* make a simulation pass: propagate every gate once, in non-decreasing    *)
(* depth order.  The variable propagated holds the gates of the pass just  *)
(* completed; any other call empties it.  These runs examine the circuit   *)
(* and not the outcome of single calls: ret is left alone.                 *)

InitSim == EmptyCircuit

\* a single call leaves the circuit nodes ns, gates gs; no complete pass
\* has just been made
SimCall(ns, gs) ==
    /\ nodes' = ns
    /\ gates' = gs
    /\ propagated' = {}
    /\ UNCHANGED <<ret, probe>>

\* the number of Signals up to which a circuit with gates of these types
\* is built
SimBound(types) == IF types \subseteq {"nand"} THEN MaxNodes ELSE MaxMixedNodes

CircuitTypes == {gates[g].type : g \in GateIds}

SimNewNode ==
    /\ Len(nodes) < SimBound(CircuitTypes)
    /\ SimCall(Append(nodes, Node__init__(None, None)), gates)

SimNewGate ==
    /\ Len(nodes) < MaxNodes
    /\ \E type \in GateTypes :
          /\ Len(nodes) < SimBound(CircuitTypes \cup {type})
          /\ \E inputs \in InputSeqs(1, MaxBuildFanIn) :
                /\ accepts_arity(type, Len(inputs))
                /\ LET c == Gate__init__(nodes, gates, type, inputs)
                   IN  SimCall(c.nodes, c.gates)

AssignInput ==
    \E n \in NodeIds, val \in {"0", "1", "X"} :
        /\ is_pi(nodes[n])
        /\ SimCall([nodes EXCEPT ![n] = set_state(nodes[n], val).node], gates)

SimAttachFault ==
    \E n \in NodeIds, stuck_at \in {0, 1}, set \in BOOLEAN :
        /\ FaultyNodes \ {n} = {}
        /\ SimCall([nodes EXCEPT ![n] = make_faulty(nodes[n], stuck_at, set)], gates)

SimSetStuckAt ==
    \E n \in NodeIds, stuck_at \in {None, 0, 1} :
        /\ stuck_at # None => FaultyNodes \ {n} = {}
        /\ SimCall([nodes EXCEPT ![n] = set_stuck_at(nodes[n], stuck_at)], gates)

SimRemoveFault ==
    \E n \in FaultyNodes : SimCall([nodes EXCEPT ![n] = remove_fault(nodes[n])], gates)

SimReset ==
    \E n \in NodeIds : SimCall([nodes EXCEPT ![n] = reset(nodes[n])], gates)

SimGateReset ==
    \E g \in GateIds : SimCall(gate_reset(nodes, gates[g]), gates)

SimPropagate ==
    \E g \in GateIds : SimCall(propagate(nodes, gates, g).nodes, gates)

\* the orders in which a pass may visit the gates: every gate once, in
\* non-decreasing depth, gates of equal depth in any order
DepthOrders ==
    {order \in Perms(Len(gates)) :
        \A i, j \in DOMAIN order :
            i < j => gates[order[i]].depth <= gates[order[j]].depth}

\* "for gate in order: gate.propagate()"; a call that raises leaves the
\* nodes as they are
RECURSIVE pass_loop(_, _, _)
pass_loop(ns, gs, order) ==
    IF order = <<>> THEN ns
    ELSE pass_loop(propagate(ns, gs, Head(order)).nodes, gs, Tail(order))

\* a simulation pass: the caller propagates every gate in one of the orders
SimPass ==
    /\ gates # <<>>
    /\ \E order \in DepthOrders : nodes' = pass_loop(nodes, gates, order)
    /\ propagated' = GateIds
    /\ UNCHANGED <<gates, ret, probe>>

NextSim ==
    \/ SimNewNode
    \/ SimNewGate
    \/ AssignInput
    \/ SimAttachFault
    \/ SimSetStuckAt
    \/ SimRemoveFault
    \/ SimReset
    \/ SimGateReset
    \/ SimPropagate
    \/ SimPass

SpecSim == InitSim /\ [][NextSim]_vars

Producers(g) == {nodes[gates[g].inputs[i]].gate_output : i \in DOMAIN gates[g].inputs} \ {None}

SetMax(S) == CHOOSE m \in S : \A x \in S : x <= m

PassDone == gates # <<>> /\ propagated = GateIds

\* every primary input holds what an assignment of 0, 1 or X stores in it
InputsAssigned ==
    \A n \in NodeIds :
        is_pi(nodes[n]) =>
            nodes[n].state \in {Masked(nodes[n].stuck_at, v) : v \in {"0", "1", "X"}}

SingleFault == Cardinality(FaultyNodes) <= 1

\* C9: a gate's depth is 1 over primary inputs and otherwise 1 + the largest
\* depth of the gates producing its inputs, hence above each of them; and
\* when the primary inputs hold assigned values of 0, 1 or X, at most one
\* Signal carries a fault and every gate has been propagated once in
\* non-decreasing depth order, every output holds the fault-masked
\* truth-table value of its gate's current inputs, so that propagating any
\* gate again changes nothing.
C9_DepthOrderConsistent ==
    /\ \A g \in GateIds :
          /\ gates[g].depth =
                IF Producers(g) = {} THEN 1
                ELSE 1 + SetMax({gates[h].depth : h \in Producers(g)})
          /\ \A h \in Producers(g) : gates[h].depth < gates[g].depth
    /\ (PassDone /\ InputsAssigned /\ SingleFault) =>
          \A g \in GateIds :
             /\ nodes[gates[g].output].state =
                   Masked(nodes[gates[g].output].stuck_at,
                          Table(gates[g].type, input_states(nodes, gates[g])))
             /\ propagate(nodes, gates, g).raised = ""
             /\ propagate(nodes, gates, g).nodes = nodes

\* a complete pass over a gate of depth 3 whose first input is the output of
\* a gate of depth 2 and whose second input the output of a gate of depth 1,
\* the fault sitting on the latter
C9_Witness ==
    /\ PassDone
    /\ InputsAssigned
    /\ SingleFault
    /\ \E g, h1, h2 \in GateIds :
          /\ gates[g].inputs = <<gates[h2].output, gates[h1].output>>
          /\ gates[h1].depth = 1
          /\ gates[h2].depth = 2
          /\ gates[g].depth = 3
          /\ nodes[gates[h1].output].stuck_at = 0
          /\ nodes[gates[h1].output].state = "D"
          /\ nodes[gates[h2].output].state = "~D"
          /\ nodes[gates[g].output].state = "1"

---------------------------------------------------------------------------
(* Structural runs: circuits of NOT and OR gates are built and Signals     *)
(* assigned and reset in any order, and has_x_path is queried on any       *)
(* Signal.                                                                 *)

StructTypes == {"not", "or"}

StructVals == {"0", "X", "D"}

InitStruct == EmptyCircuit

StructNewNode == NewNode(MaxStructNodes)

StructNewGate ==
    \E type \in StructTypes, inputs \in InputSeqs(1, MaxBuildFanIn) :
        /\ accepts_arity(type, Len(inputs))
        /\ NewGate(MaxStructNodes, type, inputs)

StructSetState == \E n \in NodeIds, val \in StructVals : SetState(n, val)

StructReset == \E n \in NodeIds : Reset(n)

StructGateReset == \E g \in GateIds : GateReset(g)

StructHasXPath == \E n \in NodeIds : HasXPath(n)

NextStruct ==
    \/ StructNewNode
    \/ StructNewGate
    \/ StructSetState
    \/ StructReset
    \/ StructGateReset
    \/ StructHasXPath

SpecStruct == InitStruct /\ [][NextStruct]_vars

Consumes(g, n) == \E i \in DOMAIN gates[g].inputs : gates[g].inputs[i] = n

\* m is the output of a gate consuming n
Feeds(n, m) == \E g \in GateIds : Consumes(g, n) /\ gates[g].output = m

IsPrimaryOutput(n) == ~\E g \in GateIds : Consumes(g, n)

\* a chain n1 .. nk of X-valued Signals from a consumer of n to a primary output
XChains(n) ==
    {c \in UNION {[1..k -> NodeIds] : k \in 1..Len(nodes)} :
        /\ Feeds(n, c[1])
        /\ \A i \in DOMAIN c : nodes[c[i]].state = "X"
        /\ \A i \in 1..(Len(c) - 1) : Feeds(c[i], c[i + 1])
        /\ IsPrimaryOutput(c[Len(c)])}

\* C5: has_x_path() on a primary output tells whether its own value is X; on
\* any other Signal it tells whether a chain of X-valued Signals leads from the
\* output of one of its consumers to a primary output.
C5_XPath ==
    ret.op = "has_x_path" =>
        ret.flag = IF IsPrimaryOutput(ret.target)
                   THEN nodes[ret.target].state = "X"
                   ELSE XChains(ret.target) # {}

C5_Witness ==
    /\ ret.op = "has_x_path"
    /\ ret.flag
    /\ nodes[ret.target].state = "0"
    /\ is_fanout(nodes[ret.target])
    /\ \E c \in XChains(ret.target) : Len(c) = 2
    /\ \E m \in NodeIds : Feeds(ret.target, m) /\ nodes[m].state = "D"

---------------------------------------------------------------------------
(* Arity runs: gates of every type are constructed over any number of      *)
(* inputs, as the constructor allows, then propagated, reset and scored.   *)

InitArity == EmptyCircuit

ArityNewNode == NewNode(MaxArityNodes)

ArityNewGate ==
    \E type \in GateTypes, inputs \in InputSeqs(0, MaxBuildFanIn) :
        NewGate(MaxArityNodes, type, inputs)

ArityPropagate == \E g \in GateIds : Propagate(g)

ArityReset == \E n \in NodeIds : Reset(n)

ArityGateReset == \E g \in GateIds : GateReset(g)

AritySetControllability == \E n \in NodeIds : SetControllability(n)

NextArity ==
    \/ ArityNewNode
    \/ ArityNewGate
    \/ ArityPropagate
    \/ ArityReset
    \/ ArityGateReset
    \/ AritySetControllability

SpecArity == InitArity /\ [][NextArity]_vars

\* the arity rule of the specification: a NOT gate has exactly one input,
\* every other gate at least two
ValidArity(type, k) == IF type = "not" THEN k = 1 ELSE k >= 2

\* C6: no gate of wrong arity ever exists in the circuit: none owns an output
\* Signal and none is registered as a consumer of a Signal.
C6_ArityRejected ==
    /\ \A g \in GateIds : ValidArity(gates[g].type, Len(gates[g].inputs))
    /\ \A n \in NodeIds :
          /\ nodes[n].gate_output # None =>
                ValidArity(gates[nodes[n].gate_output].type,
                           Len(gates[nodes[n].gate_output].inputs))
          /\ \A i \in DOMAIN nodes[n].gates :
                ValidArity(gates[nodes[n].gates[i]].type,
                           Len(gates[nodes[n].gates[i]].inputs))

---------------------------------------------------------------------------
(* Controllability runs: the formulas of set_controllability applied to a  *)
(* gate whose inputs carry scores computed earlier.  A primary input has   *)
(* (1, 1); a gate output has two scores of at least 2 (a chain of k NOT    *)
(* gates yields (k + 1, k + 1)).                                           *)

BigScore == 500001

ScoreVals == {2, 3, BigScore}

Scores == {[cc0 |-> 1, cc1 |-> 1]} \cup [cc0 : ScoreVals, cc1 : ScoreVals]

InitCC ==
    /\ nodes = <<>>
    /\ gates = <<>>
    /\ ret = Outcome("init", 0, "", "", "")
    /\ propagated = {}
    /\ \E type \in GateTypes, k \in 1..MaxFanIn :
          /\ accepts_arity(type, k)
          /\ probe \in [type : {type}, ins : [1..k -> Scores]]

ProbeCC ==
    /\ ret.op = "init"
    /\ LET r == GateCC(probe.type, probe.ins)
       IN  ret' = [Outcome("set_controllability", 0, "", r.raised, "") EXCEPT
                      !.cc = <<r.cc0, r.cc1>>]
    /\ UNCHANGED <<nodes, gates, propagated, probe>>

NextCC == ProbeCC

SpecCC == InitCC /\ [][NextCC]_vars

\* parity-min(odd): the least cost over the odd-sized subsets of the inputs
ParityMin(ins) ==
    SetMin({SeqSum([i \in DOMAIN ins |-> IF i \in S THEN ins[i].cc1 ELSE ins[i].cc0]) :
               S \in {T \in SUBSET DOMAIN ins : Cardinality(T) % 2 = 1}})

MinOf(ins, f) == SetMin({ins[i][f] : i \in DOMAIN ins})
SumOf(ins, f) == SeqSum([i \in DOMAIN ins |-> ins[i][f]])

\* the table of section 4.2 of the specification
TableCC(type, ins) ==
    LET minsum == SetMin({SumOf(ins, "cc0"), SumOf(ins, "cc1")}) + 1
    IN  CASE type = "not" -> <<ins[1].cc1 + 1, ins[1].cc0 + 1>>
          [] type = "and" -> <<MinOf(ins, "cc0") + 1, SumOf(ins, "cc1") + 1>>
          [] type = "nand" -> <<SumOf(ins, "cc1") + 1, MinOf(ins, "cc0") + 1>>
          [] type = "or" -> <<SumOf(ins, "cc0") + 1, MinOf(ins, "cc1") + 1>>
          [] type = "nor" -> <<MinOf(ins, "cc1") + 1, SumOf(ins, "cc0") + 1>>
          [] type = "xor" -> <<minsum, ParityMin(ins) + 1>>
          [] type = "xnor" -> <<ParityMin(ins) + 1, minsum>>

\* C4: a gate output gets exactly the table values computed from the scores
\* of its gate's inputs.
C4_TableScores ==
    ret.op = "set_controllability" =>
        (ret.raised = "" /\ ret.cc = TableCC(probe.type, probe.ins))

=============================================================================
